---- MODULE Spec2Model ----
(***************************************************************************)
(* The snow classifier of server.py: analyze_image_for_snow (pixel feature *)
(* extractor) and the /api/analyze handler analyze_image (fetch, extract,  *)
(* threshold ladder, error branches).                                      *)
(*                                                                         *)
(* Numbers.  Percentages are carried in tenths (66.7 is 667), confidences  *)
(* in hundredths (0.85 is 85).  An unrounded float is an exact fraction    *)
(* <<num, den>>; den = 0 is the IEEE NaN that np.mean gives for an empty   *)
(* slice.  A rounded float is an integer or NaN.  round() is round-half-   *)
(* even on the double: for the fractions k/n met here (n < 40) every tie   *)
(* is a dyadic number, hence exact; the ties of the confidence sums, which *)
(* are not exact in binary, are tabulated as CPython rounds them.          *)
(***************************************************************************)
EXTENDS Integers, FiniteSets, Sequences, TLC

VARIABLES fetch, deps, content, pc, analysis, result

vars == <<fetch, deps, content, pc, analysis, result>>

-----------------------------------------------------------------------------
(* Bounds of the explored inputs *)

MaxW == 4
MaxH == 2
MaxPixels == 7
MaxTallyW == 17
MaxTallyH == 2

-----------------------------------------------------------------------------
(* Literals of the program *)

NightBrightness == 80
DayThreshold == 200
NightThreshold == 170
SaturationLimit == 25
WhiteCap == 250
CurbBlocked == 40
SnowBlocked == 50
SnowSome == 20
NightLow == 10
SnowVisibleMin == 5

NaN == -1

White == <<255, 255, 255>>
Gray220 == <<220, 220, 220>>
Gray180 == <<180, 180, 180>>
Red == <<255, 0, 0>>
Black == <<0, 0, 0>>

Palette == {White, Gray220, Gray180, Red, Black}

-----------------------------------------------------------------------------
(* Float helpers *)

Max2(a, b) == IF a >= b THEN a ELSE b
Min2(a, b) == IF a <= b THEN a ELSE b

IsNaN(x) == x[2] = 0

\* a > b on unrounded floats; every comparison with NaN is false
FGt(a, b) == ~IsNaN(a) /\ ~IsNaN(b) /\ a[1] * b[2] > b[1] * a[2]

\* Python's builtin max(a, b): keeps a unless b > a
PyMax(a, b) == IF FGt(b, a) THEN b ELSE a

\* np.mean(mask) * 100 of a section with k True cells out of n
MeanPct(k, n) == <<100 * k, n>>

\* x *= 0.5
Halve(x) == <<x[1], 2 * x[2]>>

RoundHalfEven(num, den) ==
    LET q == num \div den
        r == num % den
    IN  IF 2 * r < den THEN q
        ELSE IF 2 * r > den THEN q + 1
        ELSE IF q % 2 = 0 THEN q ELSE q + 1

\* round(float(x), 1), in tenths
Round1(x) == IF IsNaN(x) THEN NaN ELSE RoundHalfEven(10 * x[1], x[2])

\* comparisons of a rounded float with a literal
PyGt(x, lit) == x # NaN /\ x > 10 * lit
PyLt(x, lit) == x # NaN /\ x < 10 * lit

\* f"{x:.0f}" of a rounded float
Format0(x) == IF x = NaN THEN NaN ELSE RoundHalfEven(x, 10)

-----------------------------------------------------------------------------
(* Pixel feature extractor *)

GroundStart(h) == (6 * h) \div 10
LeftEnd(w) == w \div 4
RightStart(w) == (3 * w) \div 4

ChannelSum(p) == p[1] + p[2] + p[3]
Saturation(p) == Max2(Max2(p[1], p[2]), p[3]) - Min2(Min2(p[1], p[2]), p[3])

PixelAt(img, i, j) == img.px[i * img.w + j]

RECURSIVE SumChannels(_, _)
SumChannels(img, n) ==
    IF n = 0 THEN 0 ELSE ChannelSum(img.px[n - 1]) + SumChannels(img, n - 1)

\* overall_brightness = np.mean(img_array); is_night = overall_brightness < 80
ImageIsNight(img) ==
    SumChannels(img, img.w * img.h) < NightBrightness * 3 * img.w * img.h

BrightnessThreshold(night) == IF night THEN NightThreshold ELSE DayThreshold

SnowMask(p, night) ==
    /\ ChannelSum(p) > 3 * BrightnessThreshold(night)
    /\ Saturation(p) < SaturationLimit
    /\ ChannelSum(p) < 3 * WhiteCap

\* number of True cells of snow_mask[:, c0:c1]
MaskCount(img, night, c0, c1) ==
    Cardinality({ij \in (GroundStart(img.h) .. img.h - 1) \X (c0 .. c1 - 1) :
                    SnowMask(PixelAt(img, ij[1], ij[2]), night)})

GroundRows(h) == h - GroundStart(h)

IsNight(c) == IF c.kind = "image" THEN ImageIsNight(c) ELSE c.night

\* True cells and size of the whole mask, its left slice and its right slice,
\* with the brightness threshold the night flag selects.  A "tally" content
\* is a decoded image given by its dimensions, its night flag and the number
\* of snow-like pixels of the left, centre and right ground columns.
Tally(c, night) ==
    LET g == GroundRows(c.h)
    IN  IF c.kind = "image"
        THEN [k  |-> MaskCount(c, night, 0, c.w),
              n  |-> g * c.w,
              kl |-> MaskCount(c, night, 0, LeftEnd(c.w)),
              nl |-> g * LeftEnd(c.w),
              kr |-> MaskCount(c, night, RightStart(c.w), c.w),
              nr |-> g * (c.w - RightStart(c.w))]
        ELSE [k  |-> c.kl + c.kc + c.kr,
              n  |-> g * c.w,
              kl |-> c.kl,
              nl |-> g * LeftEnd(c.w),
              kr |-> c.kr,
              nr |-> g * (c.w - RightStart(c.w))]

\* the night adjustment left out
NightAdjustNone(x, night) == x

NightAdjust(x, night) == IF night THEN Halve(x) ELSE x

SnowPercentage(t, night) == Round1(NightAdjust(MeanPct(t.k, t.n), night))

CurbSnow(t) == PyMax(MeanPct(t.kl, t.nl), MeanPct(t.kr, t.nr))

CurbSnowPercentage(t, night) == Round1(NightAdjust(CurbSnow(t), night))

Features(c) ==
    LET is_night == IsNight(c)
        t == Tally(c, is_night)
    IN  [snow_percentage      |-> SnowPercentage(t, is_night),
         curb_snow_percentage |-> CurbSnowPercentage(t, is_night),
         is_night             |-> is_night,
         analysis_method      |-> "color_detection"]

analyze_image_for_snow(d, c) ==
    IF ~d THEN [error |-> "PIL/numpy not installed", analysis_method |-> "none"]
    ELSE IF c.kind = "garbage"
         THEN [error |-> "cannot identify image file", analysis_method |-> "failed"]
         ELSE Features(c)

-----------------------------------------------------------------------------
(* Threshold ladder of analyze_image *)

Rule1TieUp == {510, 530, 550}
Rule2TieUp == {510, 530, 550, 570, 590, 610, 630, 650, 670}

\* round(v, 2) of a confidence v given in 1/2000; tieUp holds on the ties
\* whose double lies above the decimal midpoint
Round2(v, tieUp) ==
    LET q == v \div 20
        r == v % 20
    IN  IF r < 10 THEN q
        ELSE IF r > 10 THEN q + 1
        ELSE IF tieUp THEN q + 1 ELSE q

\* 0.5 + curb_pct / 100 with the cap left out, in 1/2000
Rule1ConfidenceUncapped(curb_pct) == 1000 + 2 * curb_pct

\* min(0.85, 0.5 + curb_pct / 200), in 1/2000
Rule1Confidence(curb_pct) == Min2(1700, 1000 + curb_pct)

\* min(0.75, 0.4 + snow_pct / 200), in 1/2000
Rule2Confidence(snow_pct) == Min2(1500, 800 + snow_pct)

\* inclusive comparisons in place of the strict ones
Rule1Inclusive(curb_pct) == curb_pct # NaN /\ curb_pct >= 10 * CurbBlocked
Rule3Inclusive(snow_pct) == snow_pct # NaN /\ snow_pct >= 10 * SnowSome

Rule1(curb_pct) == PyGt(curb_pct, CurbBlocked)
Rule2(snow_pct) == PyGt(snow_pct, SnowBlocked)
Rule3(snow_pct) == PyGt(snow_pct, SnowSome)
Rule4(snow_pct, is_night) == is_night /\ PyLt(snow_pct, NightLow)

Verdict(status, confidence, rule, pct, snow_visible, a) ==
    [status               |-> status,
     confidence           |-> confidence,
     reason               |-> [template |-> rule, pct |-> Format0(pct)],
     snow_visible         |-> snow_visible,
     snow_percentage      |-> a.snow_percentage,
     curb_snow_percentage |-> a.curb_snow_percentage,
     ai_enabled           |-> TRUE,
     analysis_method      |-> "color_detection"]

Classify(a) ==
    LET snow_pct == a.snow_percentage
        curb_pct == a.curb_snow_percentage
        is_night == a.is_night
    IN  IF Rule1(curb_pct)
        THEN Verdict("blocked",
                     Round2(Rule1Confidence(curb_pct), curb_pct \in Rule1TieUp),
                     "curb", curb_pct, TRUE, a)
        ELSE IF Rule2(snow_pct)
        THEN Verdict("blocked",
                     Round2(Rule2Confidence(snow_pct), snow_pct \in Rule2TieUp),
                     "heavy", snow_pct, TRUE, a)
        ELSE IF Rule3(snow_pct)
        THEN Verdict("clear", 65, "some", snow_pct, TRUE, a)
        ELSE IF Rule4(snow_pct, is_night)
        THEN Verdict("clear", 75, "night", snow_pct, FALSE, a)
        ELSE Verdict("clear", 85, "minimal", snow_pct,
                     PyGt(snow_pct, SnowVisibleMin), a)

ExtractionErrorResult(a) ==
    [status       |-> "clear",
     confidence   |-> 50,
     reason       |-> [template |-> "analysis_error", cause |-> a.error],
     snow_visible |-> FALSE,
     ai_enabled   |-> TRUE]

TimeoutResult ==
    [status     |-> "obscured",
     confidence |-> 0,
     reason     |-> [template |-> "timeout"],
     ai_enabled |-> TRUE]

\* the generic branch answering like the timeout branch
ExceptionResultObscured ==
    [status     |-> "obscured",
     confidence |-> 0,
     reason     |-> [template |-> "could_not_analyze"],
     ai_enabled |-> TRUE]

ExceptionResult ==
    [status     |-> "clear",
     confidence |-> 0,
     reason     |-> [template |-> "could_not_analyze"],
     ai_enabled |-> TRUE]

-----------------------------------------------------------------------------
(* Requests and the handler *)

NoAnalysis == [analysis_method |-> "pending"]
NoResult == [status |-> "pending"]
NoContent == [kind |-> "none"]
Garbage == [kind |-> "garbage"]

ImageOf(w, h, px) == [kind |-> "image", w |-> w, h |-> h, px |-> px]

\* One request per behaviour: what requests.get does, whether PIL and numpy
\* import, and the bytes of the response.  An import failure is explored
\* with the undecodable body and the one-pixel images only, as the content
\* is then never read.
Init ==
    /\ pc = "pending"
    /\ analysis = NoAnalysis
    /\ result = NoResult
    /\ \/ /\ fetch \in {"timeout", "error"}
          /\ deps \in BOOLEAN
          /\ content = NoContent
       \/ /\ fetch = "ok"
          /\ deps = FALSE
          /\ \/ content = Garbage
             \/ \E p \in Palette : content = ImageOf(1, 1, [i \in {0} |-> p])
       \/ /\ fetch = "ok"
          /\ deps = TRUE
          /\ \/ content = Garbage
             \/ \E w \in 1 .. MaxW, h \in 1 .. MaxH :
                   /\ w * h <= MaxPixels
                   /\ \E px \in [0 .. w * h - 1 -> Palette] :
                         content = ImageOf(w, h, px)

\* Least channel sum of a pixel that is snow-like at night
MinNightSnowSum == 3 * NightThreshold + 1

\* A tally flagged night is the tally of some image: with its k snow-like
\* pixels as dark as the night threshold allows and every other pixel black,
\* the mean channel value is below NightBrightness.  A tally flagged day
\* always is (every other pixel white).
TallyRealisable(w, h, night, k) ==
    night => MinNightSnowSum * k < NightBrightness * 3 * w * h

InitTally ==
    /\ pc = "pending"
    /\ analysis = NoAnalysis
    /\ result = NoResult
    /\ fetch = "ok"
    /\ deps = TRUE
    /\ \E w \in 1 .. MaxTallyW, h \in 1 .. MaxTallyH, night \in BOOLEAN :
          LET g == GroundRows(h)
          IN  \E kl \in 0 .. g * LeftEnd(w),
                 kc \in 0 .. g * (RightStart(w) - LeftEnd(w)),
                 kr \in 0 .. g * (w - RightStart(w)) :
                  /\ TallyRealisable(w, h, night, kl + kc + kr)
                  /\ content = [kind |-> "tally", w |-> w, h |-> h, night |-> night,
                                kl |-> kl, kc |-> kc, kr |-> kr]

\* requests.get and raise_for_status succeed, the extractor returns features
AnalyzeOk ==
    /\ pc = "pending"
    /\ fetch = "ok"
    /\ LET a == analyze_image_for_snow(deps, content)
       IN  /\ "error" \notin DOMAIN a
           /\ analysis' = a
           /\ result' = Classify(a)
    /\ pc' = "done"
    /\ UNCHANGED <<fetch, deps, content>>

\* the extractor returns a record with an 'error' key
AnalyzeExtractionError ==
    /\ pc = "pending"
    /\ fetch = "ok"
    /\ LET a == analyze_image_for_snow(deps, content)
       IN  /\ "error" \in DOMAIN a
           /\ analysis' = a
           /\ result' = ExtractionErrorResult(a)
    /\ pc' = "done"
    /\ UNCHANGED <<fetch, deps, content>>

\* requests.get raises requests.exceptions.Timeout
AnalyzeTimeout ==
    /\ pc = "pending"
    /\ fetch = "timeout"
    /\ result' = TimeoutResult
    /\ pc' = "done"
    /\ UNCHANGED <<fetch, deps, content, analysis>>

\* requests.get or raise_for_status raises any other exception
AnalyzeException ==
    /\ pc = "pending"
    /\ fetch = "error"
    /\ result' = ExceptionResult
    /\ pc' = "done"
    /\ UNCHANGED <<fetch, deps, content, analysis>>

Next == AnalyzeOk \/ AnalyzeExtractionError \/ AnalyzeTimeout \/ AnalyzeException

Spec == Init /\ [][Next]_vars

NextTally == AnalyzeOk

SpecTally == InitTally /\ [][NextTally]_vars

-----------------------------------------------------------------------------
(* Properties *)

Done == pc = "done"
Extracted == Done /\ fetch = "ok" /\ "error" \notin DOMAIN analysis
ExtractionFailed == Done /\ fetch = "ok" /\ "error" \in DOMAIN analysis
DecodedImage == Extracted /\ content.kind = "image"

Abs(x) == IF x < 0 THEN 0 - x ELSE x

GroundCells(c) == (GroundStart(c.h) .. c.h - 1) \X (0 .. c.w - 1)
CurbColumn(c, j) == j < LeftEnd(c.w) \/ j >= RightStart(c.w)

\* C1: whenever feature extraction fails, the result has status obscured,
\* confidence 0.0 and snowVisible false, with a reason naming the cause.
C1_ExtractionFailureIsObscured ==
    ExtractionFailed =>
        /\ result.status = "obscured"
        /\ result.confidence = 0
        /\ result.snow_visible = FALSE
        /\ result.reason.cause = analysis.error

\* C2 as stated: a result with status obscured comes from a failed feature
\* extraction only.
C2_ObscuredOnlyFromExtractionFailure ==
    (Done /\ result.status = "obscured") => ExtractionFailed

\* C2 amended: a result with status obscured comes from a failed feature
\* extraction or from a fetch timeout; a successful extraction and any other
\* exception never give obscured.
C2_ObscuredOnlyFromFailureOrTimeout ==
    (Done /\ result.status = "obscured") =>
        (ExtractionFailed \/ fetch = "timeout")

C2_Witness == Done /\ fetch = "timeout" /\ result.status = "obscured"

\* C3: on every return path 0 <= confidence <= 1 and status is one of clear,
\* blocked, obscured.
C3_ConfidenceAndStatusRange ==
    Done =>
        /\ result.confidence >= 0
        /\ result.confidence <= 100
        /\ result.status \in {"clear", "blocked", "obscured"}

C3_Witness ==
    /\ Extracted
    /\ result.reason.template = "curb"
    /\ result.curb_snow_percentage = 1000
    /\ result.confidence = 85

\* C4: for every image that decodes, whatever its dimensions, snow_percentage
\* and curb_snow_percentage are numbers in [0, 100].
C4_PercentagesInRange ==
    DecodedImage =>
        /\ analysis.snow_percentage \in 0 .. 1000
        /\ analysis.curb_snow_percentage \in 0 .. 1000

\* The ladder as the claim C5 words it, on the reported features; conf(v)
\* relates the returned confidence to the value v of the formula, in 1/2000.
LadderHolds(conf(_)) ==
    LET snow == result.snow_percentage
        curb == result.curb_snow_percentage
    IN  IF curb # NaN /\ curb > 400
        THEN /\ result.status = "blocked"
             /\ conf(Min2(1700, 1000 + curb))
             /\ result.snow_visible = TRUE
        ELSE IF snow > 500
        THEN /\ result.status = "blocked"
             /\ conf(Min2(1500, 800 + snow))
             /\ result.snow_visible = TRUE
        ELSE IF snow > 200
        THEN /\ result.status = "clear"
             /\ conf(1300)
             /\ result.snow_visible = TRUE
        ELSE IF analysis.is_night /\ snow < 100
        THEN /\ result.status = "clear"
             /\ conf(1500)
             /\ result.snow_visible = FALSE
        ELSE /\ result.status = "clear"
             /\ conf(1700)
             /\ result.snow_visible = (snow > 50)

ConfidenceExact(v) == 20 * result.confidence = v
ConfidenceRounded(v) == Abs(20 * result.confidence - v) <= 10

\* C5 as stated: the result is that of the first matching rule of the ladder
\* and the returned confidence equals the value of the rule's formula exactly.
C5_LadderExactConfidence == Extracted => LadderHolds(ConfidenceExact)

\* C5 amended: the result is that of the first matching rule of the ladder
\* and the returned confidence is the value of the rule's formula rounded to
\* two decimals.
C5_LadderRoundedConfidence == Extracted => LadderHolds(ConfidenceRounded)

C5_Witness ==
    /\ Extracted
    /\ result.reason.template = "curb"
    /\ result.curb_snow_percentage = 667
    /\ result.confidence = 83

\* Values the extractor computes for the content when the night flag is flag
SnowWithFlag(flag) == SnowPercentage(Tally(content, flag), flag)
CurbWithFlag(flag) == CurbSnowPercentage(Tally(content, flag), flag)

ExactHalf(a, b) == IF a = NaN \/ b = NaN THEN a = b ELSE 2 * a = b
HalfWithinRounding(a, b) ==
    IF a = NaN \/ b = NaN THEN a = b ELSE Abs(2 * a - b) <= 1

NoMidBrightness(c) ==
    \A ij \in GroundCells(c) :
        LET sum == ChannelSum(PixelAt(c, ij[1], ij[2]))
        IN  ~(sum > 3 * 170 /\ sum <= 3 * 200)

C7_Rule1StrictAt40 ==
    Extracted =>
        LET curb == result.curb_snow_percentage
            snow == result.snow_percentage
        IN  IF curb # NaN /\ curb > 400
            THEN result.status = "blocked" /\ result.reason.template = "curb"
            ELSE /\ result.reason.template # "curb"
                 /\ result.status = IF snow > 500 THEN "blocked" ELSE "clear"

C7_Witness ==
    /\ Extracted
    /\ result.curb_snow_percentage = 400
    /\ result.reason.template # "curb"
    /\ result.status = "clear"

AllWhite(c) == \A i \in DOMAIN c.px : c.px[i] = White

\* C8: an all-white image of any dimensions has snowPercentage 0 and
\* curbSnowPercentage 0 and is reported clear, 0.85, snowVisible false.
C8_AllWhiteIsClear ==
    (DecodedImage /\ AllWhite(content)) =>
        /\ result.snow_percentage = 0
        /\ result.curb_snow_percentage = 0
        /\ result.reason.template = "minimal"
        /\ result.status = "clear"
        /\ result.confidence = 85
        /\ result.snow_visible = FALSE

\* Curb columns Gray220, centre columns (there is one) Red
ScenarioC(c) ==
    /\ LeftEnd(c.w) < RightStart(c.w)
    /\ \A ij \in GroundCells(c) :
          PixelAt(c, ij[1], ij[2]) =
              IF CurbColumn(c, ij[2]) THEN Gray220 ELSE Red

\* C9: with the curb columns of the ground region achromatic at 220 and the
\* centre ground pixels pure red, whatever the top rows, rule 1 fires, the
\* status is blocked and snowPercentage is below the undampened curb coverage.
C9_CurbAloneBlocks ==
    (DecodedImage /\ ScenarioC(content)) =>
        /\ result.reason.template = "curb"
        /\ result.status = "blocked"
        /\ LET coverage == Round1(CurbSnow(Tally(content, analysis.is_night)))
           IN  coverage # NaN /\ result.snow_percentage < coverage

\* C10: a night image has snow_percentage and curb_snow_percentage at most
\* 50, never fires rule 2, and is blocked only through rule 1 with
\* curb_snow_percentage in (40, 50] and a confidence of at most 0.75.
C10_NightAtMostHalf ==
    (DecodedImage /\ analysis.is_night) =>
        /\ result.snow_percentage # NaN /\ result.snow_percentage <= 500
        /\ result.curb_snow_percentage # NaN /\ result.curb_snow_percentage <= 500
        /\ result.reason.template # "heavy"
        /\ result.status = "blocked" =>
              /\ result.reason.template = "curb"
              /\ result.curb_snow_percentage > 400
              /\ result.confidence <= 75

====
